---- MODULE Spec2Model ----
(***************************************************************************)
(* State-machine model of storylinepanzoom.js: the zoom session module     *)
(* (StorylinePanzoom), the gesture listeners it attaches, the ready-gate   *)
(* loader (StorylinePanzoomLoader) and the public proxy.                   *)
(***************************************************************************)
EXTENDS Integers, Sequences, FiniteSets, TLC

\* ------------------------------------------------------------------ bounds
MaxControllers == 2      \* Panzoom instances created in one run
MaxEvents == 1           \* gesture events dispatched in one run of the session module
MaxGestures == 5         \* gesture events dispatched in one run of a single session
MaxQueue == 2            \* pending init requests held by the loader
ClockStep == 100         \* a short pause between two events, in milliseconds
T0 == 1000               \* Date.getTime() when the page starts

\* ------------------------------------------------------- program constants
MaxAttempts == 50        \* attempts >= 50
TapWindow == 300         \* tapLength < 300

\* --------------------------------------------------------------- rationals
\* JavaScript numbers that the model needs exactly (scales) are fractions
\* <<n, d>> in lowest terms with d > 0.
RECURSIVE GCD(_, _)
GCD(a, b) == IF b = 0 THEN a ELSE GCD(b, a % b)

Abs(n) == IF n < 0 THEN -n ELSE n

Norm(n, d) ==
    IF n = 0 THEN <<0, 1>>
    ELSE LET g == GCD(Abs(n), d) IN <<n \div g, d \div g>>

RInt(n) == <<n, 1>>
RMul(p, q) == Norm(p[1] * q[1], p[2] * q[2])
RAdd(p, q) == Norm(p[1] * q[2] + q[1] * p[2], p[2] * q[2])
RSub(p, q) == Norm(p[1] * q[2] - q[1] * p[2], p[2] * q[2])
RLess(p, q) == p[1] * q[2] < q[1] * p[2]
RMin(p, q) == IF RLess(p, q) THEN p ELSE q
RMax(p, q) == IF RLess(p, q) THEN q ELSE p

\* ----------------------------------------------------------------- strings
\* A style.transform string is kept as its shape, its numerals and the
\* white space written after each comma.
Str(shape, tx, ty, rot, sx, sy, sep) ==
    [shape |-> shape, tx |-> tx, ty |-> ty, rot |-> rot,
     sx |-> sx, sy |-> sy, sep |-> sep]

\* ''
EmptyStr == Str("", 0, 0, 0, RInt(0), RInt(0), "")

\* `translate(${tx}px,${sep}${ty}px) rotate(${rot}deg) scale(${sx},${sep}${sy})`
TranslateRotateScale(tx, ty, rot, sx, sy, sep) ==
    Str("translate-rotate-scale", tx, ty, rot, sx, sy, sep)

\* `scale(${sx},${sy}) translate(${tx}px,${ty}px)`
ScaleTranslate(tx, ty, sx, sy) == Str("scale-translate", tx, ty, 0, sx, sy, "")

\* `scale(${scale})`
ScaleOnly(scale) == Str("scale", 0, 0, 0, scale, scale, "")

Keys == {"Lion", "Tiger"}
\* document order of the vector shapes
KeyOrder == <<"Lion", "Tiger">>

defaultOptions == [maxScale |-> RInt(5), minScale |-> RInt(1), step |-> <<3, 10>>]

\* customOptions a caller may pass: {} and {maxScale: 2}
NoOptions == [f \in {} |-> RInt(0)]
CustomOptions == { NoOptions, [maxScale |-> RInt(2)] }

\* { ...defaultOptions, ...customOptions }
MergeOptions(customOptions) ==
    [f \in DOMAIN defaultOptions |->
        IF f \in DOMAIN customOptions THEN customOptions[f] ELSE defaultOptions[f]]

VARIABLES
    dom,          \* per key: which elements exist and their inline styles
    authored,     \* history: dom as the authoring tool published the page
    instances,    \* the Map accText -> {panzoom, elements, originalState}
    ctl,          \* every Panzoom instance created, with its listeners' closure variables
    now,          \* Date.getTime()
    budget,       \* gesture events the run may still dispatch
    isReady,      \* loader: readiness flag
    initQueue,    \* loader: pending {accText, options}
    attempts,     \* loader: poll attempts
    polling,      \* loader: checkInterval not yet cleared
    gaveUp,       \* loader: the terminal failure was logged
    panzoomDefined, \* typeof Panzoom !== 'undefined'
    initLog,      \* history: the requests executeQueue has passed to StorylinePanzoom.init
    enqLog,       \* history: every request pushed on initQueue
    preInit,      \* history: per key, the styles read just before the latest successful init
    last          \* history: the latest operation, its result and its effects

vars == <<dom, authored, instances, ctl, now, budget, isReady, initQueue, attempts, polling,
          gaveUp, panzoomDefined, initLog, enqLog, preInit, last>>

sessionVars == <<dom, instances, ctl, preInit>>
loaderVars == <<isReady, initQueue, attempts, polling, gaveUp, panzoomDefined, initLog, enqLog>>

\* an effect of an operation: a call on a controller (with the controller's
\* scale when the call was made), a style write or a registry write
Fx(id, method, arg, scale) == [id |-> id, method |-> method, arg |-> arg, scale |-> scale]

\* the outcome of one call, as seen by the caller
Outcome(op, key, via, ret, threw, fx) ==
    [op |-> op, key |-> key, via |-> via, ret |-> ret, threw |-> threw, fx |-> fx,
     touches |-> <<>>]

\* the outcome of dispatching an event with the touch points e.touches
EventOutcome(ev, key, fx) ==
    [op |-> ev.type, key |-> key, via |-> "event", ret |-> 0, threw |-> FALSE, fx |-> fx,
     touches |-> ev.touches]

\* ------------------------------------------------------------ the document
Element(vs, img, mask, t) ==
    [vectorShape |-> vs, accImage |-> img, maskable |-> mask,
     vsTransform |-> t, maskTransform |-> EmptyStr,
     imgTransform |-> EmptyStr, imgOrigin |-> ""]

\* one element set of each kind: complete, no vector shape, no image, no
\* maskable, a transform in the wrong order, and that without a maskable
ElementKinds ==
    { Element(TRUE, TRUE, TRUE, TranslateRotateScale(10, -5, 0, RInt(1), RInt(1), "")),
      Element(FALSE, TRUE, FALSE, EmptyStr),
      Element(TRUE, FALSE, TRUE, TranslateRotateScale(10, -5, 0, RInt(1), RInt(1), "")),
      Element(TRUE, TRUE, FALSE, TranslateRotateScale(10, -5, 0, RInt(1), RInt(1), "")),
      Element(TRUE, TRUE, TRUE, ScaleTranslate(0, 0, RInt(1), RInt(1))),
      Element(TRUE, TRUE, FALSE, ScaleTranslate(0, 0, RInt(1), RInt(1))) }

\* findStorylineObject: null (FALSE) unless both top-level elements exist
findStorylineObject(d, accText) ==
    d[accText].vectorShape /\ d[accText].accImage

\* getTransformValues: the five numbers, or null (found = FALSE)
getTransformValues(transform) ==
    IF transform.shape = "translate-rotate-scale"
    THEN [found |-> TRUE, translateX |-> transform.tx, translateY |-> transform.ty,
          rotate |-> transform.rot, scaleX |-> transform.sx, scaleY |-> transform.sy]
    ELSE [found |-> FALSE, translateX |-> 0, translateY |-> 0,
          rotate |-> 0, scaleX |-> RInt(0), scaleY |-> RInt(0)]

\* originalState as read from the inline styles
OriginalState(d, accText) ==
    [vectorTransform |-> d[accText].vsTransform,
     maskableTransform |-> d[accText].maskTransform]


\* ------------------------------------------------- the Panzoom controller
\* A session state st = [dom, instances, ctl, fx] is threaded through the
\* operators below; fx collects the effects of the operation in order.

\* the closure variables of the listeners registered by one initializeZoom,
\* together with the state of the Panzoom instance they drive
Controller(accText, options, transformValues) ==
    [key |-> accText, scale |-> RInt(1), x |-> 0, y |-> 0, destroyed |-> FALSE,
     minScale |-> options.minScale, maxScale |-> options.maxScale, step |-> options.step,
     tv |-> transformValues,
     startDist |-> 0, lastX |-> 0, lastY |-> 0, isPanning |-> FALSE, lastTap |-> 0]

\* setTransform adding the controller's x and y to the translate
setTransformAppliesPan(st, i) ==
    LET c == st.ctl[i]
        newTransform ==
            TranslateRotateScale(c.tv.translateX + c.x, c.tv.translateY + c.y, c.tv.rotate,
                                 RMul(c.tv.scaleX, c.scale), RMul(c.tv.scaleY, c.scale), " ")
    IN [st EXCEPT !.dom[c.key].vsTransform = newTransform,
                  !.dom[c.key].imgTransform = ScaleOnly(c.scale),
                  !.dom[c.key].imgOrigin = "0 0"]

\* the setTransform option: (elem, {scale, x, y}) => {...}
setTransform(st, i) ==
    LET c == st.ctl[i]
        newTransform ==
            TranslateRotateScale(c.tv.translateX, c.tv.translateY, c.tv.rotate,
                                 RMul(c.tv.scaleX, c.scale), RMul(c.tv.scaleY, c.scale), " ")
    IN [st EXCEPT !.dom[c.key].vsTransform = newTransform,
                  !.dom[c.key].imgTransform = ScaleOnly(c.scale),
                  !.dom[c.key].imgOrigin = "0 0"]

constrainScale(c, toScale) == RMax(c.minScale, RMin(c.maxScale, toScale))

Called(st, i, method, arg) ==
    [st EXCEPT !.fx = Append(@, Fx(i, method, arg, st.ctl[i].scale))]

PanzoomZoomTo(st, i, toScale) ==
    setTransform([st EXCEPT !.ctl[i].scale = constrainScale(st.ctl[i], toScale)], i)

\* panzoom.zoom(scale)
PanzoomZoom(st, i, toScale) ==
    PanzoomZoomTo(Called(st, i, "zoom", toScale), i, toScale)

\* panzoom.zoomIn()
PanzoomZoomIn(st, i) ==
    PanzoomZoomTo(Called(st, i, "zoomIn", st.ctl[i].step), i,
                  RAdd(st.ctl[i].scale, st.ctl[i].step))

\* panzoom.zoomOut()
PanzoomZoomOut(st, i) ==
    PanzoomZoomTo(Called(st, i, "zoomOut", st.ctl[i].step), i,
                  RSub(st.ctl[i].scale, st.ctl[i].step))

\* panzoom.pan(x, y)
PanzoomPan(st, i, px, py) ==
    setTransform([Called(st, i, "pan", <<px, py>>) EXCEPT !.ctl[i].x = px, !.ctl[i].y = py], i)

\* panzoom.reset(): back to startScale 1, startX 0, startY 0
PanzoomReset(st, i) ==
    setTransform([Called(st, i, "reset", RInt(1))
                     EXCEPT !.ctl[i].scale = constrainScale(st.ctl[i], RInt(1)),
                            !.ctl[i].x = 0, !.ctl[i].y = 0], i)

\* panzoom.destroy()
PanzoomDestroy(st, i) ==
    [Called(st, i, "destroy", RInt(0)) EXCEPT !.ctl[i].destroyed = TRUE]

\* panzoom.getScale()
PanzoomGetScale(st, i) == st.ctl[i].scale

\* ------------------------------------------------------- the zoom session
\* initializeZoom with instances.set moved ahead of the transform check
initializeZoomRegistersFirst(st, accText, customOptions) ==
    LET options == MergeOptions(customOptions)
        originalState == OriginalState(st.dom, accText)
        transformValues == getTransformValues(originalState.vectorTransform)
        id == Len(st.ctl) + 1
        set == [k \in DOMAIN st.instances \cup {accText} |->
                  IF k = accText THEN [panzoom |-> id, originalState |-> originalState]
                  ELSE st.instances[k]]
    IN  IF ~findStorylineObject(st.dom, accText)
        THEN [st |-> st, res |-> "notfound", ret |-> 0]
        ELSE IF ~st.dom[accText].maskable
        THEN [st |-> st, res |-> "threw", ret |-> 0]
        ELSE IF ~transformValues.found
        THEN [st |-> [st EXCEPT !.instances = set], res |-> "nomatch", ret |-> 0]
        ELSE [st |-> [st EXCEPT
                        !.ctl = Append(@, Controller(accText, options, transformValues)),
                        !.instances = set,
                        !.fx = Append(@, Fx(id, "instances.set", RInt(0), RInt(1)))],
              res |-> "ok", ret |-> id]

\* initializeZoom: res is "notfound", "threw" (TypeError reading
\* maskable.style of null), "nomatch" or "ok"; ret is the controller handle
\* (0 for null)
initializeZoom(st, accText, customOptions) ==
    LET options == MergeOptions(customOptions)
        originalState == OriginalState(st.dom, accText)
        transformValues == getTransformValues(originalState.vectorTransform)
        id == Len(st.ctl) + 1
    IN  IF ~findStorylineObject(st.dom, accText)
        THEN [st |-> st, res |-> "notfound", ret |-> 0]
        ELSE IF ~st.dom[accText].maskable
        THEN [st |-> st, res |-> "threw", ret |-> 0]
        ELSE IF ~transformValues.found
        THEN [st |-> st, res |-> "nomatch", ret |-> 0]
        ELSE [st |-> [st EXCEPT
                        !.ctl = Append(@, Controller(accText, options, transformValues)),
                        !.instances = [k \in DOMAIN @ \cup {accText} |->
                                         IF k = accText
                                         THEN [panzoom |-> id, originalState |-> originalState]
                                         ELSE @[k]],
                        !.fx = Append(@, Fx(id, "instances.set", RInt(0), RInt(1)))],
              res |-> "ok", ret |-> id]

\* reset that leaves the vector shape's transform as the controller wrote it
resetKeepsVectorTransform(st, accText) ==
    IF accText \notin DOMAIN st.instances THEN st
    ELSE LET instance == st.instances[accText]
             st1 == PanzoomReset(st, instance.panzoom)
         IN [st1 EXCEPT
               !.dom[accText].maskTransform = instance.originalState.maskableTransform,
               !.dom[accText].imgTransform =
                   IF st1.dom[accText].accImage THEN EmptyStr ELSE @,
               !.fx = Append(@, Fx(instance.panzoom, "restore", RInt(0),
                                   st1.ctl[instance.panzoom].scale))]

\* reset(accText)
reset(st, accText) ==
    IF accText \notin DOMAIN st.instances THEN st
    ELSE LET instance == st.instances[accText]
             st1 == PanzoomReset(st, instance.panzoom)
         IN [st1 EXCEPT
               !.dom[accText].vsTransform = instance.originalState.vectorTransform,
               !.dom[accText].maskTransform = instance.originalState.maskableTransform,
               !.dom[accText].imgTransform =
                   IF st1.dom[accText].accImage THEN EmptyStr ELSE @,
               !.fx = Append(@, Fx(instance.panzoom, "restore", RInt(0),
                                   st1.ctl[instance.panzoom].scale))]

\* destroy that tears the controller down before the reset
destroyTearsDownFirst(st, accText) ==
    IF accText \notin DOMAIN st.instances THEN st
    ELSE LET instance == st.instances[accText]
             st1 == PanzoomDestroy(st, instance.panzoom)
             st2 == reset(st1, accText)
         IN [st2 EXCEPT
               !.instances = [k \in DOMAIN @ \ {accText} |-> @[k]],
               !.fx = Append(@, Fx(instance.panzoom, "instances.delete", RInt(0),
                                   st2.ctl[instance.panzoom].scale))]

\* destroy that empties the registry when the key has no session
destroyUnregisteredClears(st, accText) ==
    IF accText \notin DOMAIN st.instances THEN [st EXCEPT !.instances = << >>]
    ELSE LET instance == st.instances[accText]
             st1 == reset(st, accText)
             st2 == PanzoomDestroy(st1, instance.panzoom)
         IN [st2 EXCEPT
               !.instances = [k \in DOMAIN @ \ {accText} |-> @[k]],
               !.fx = Append(@, Fx(instance.panzoom, "instances.delete", RInt(0),
                                   st2.ctl[instance.panzoom].scale))]

\* destroy(accText)
destroy(st, accText) ==
    IF accText \notin DOMAIN st.instances THEN st
    ELSE LET instance == st.instances[accText]
             st1 == reset(st, accText)
             st2 == PanzoomDestroy(st1, instance.panzoom)
         IN [st2 EXCEPT
               !.instances = [k \in DOMAIN @ \ {accText} |-> @[k]],
               !.fx = Append(@, Fx(instance.panzoom, "instances.delete", RInt(0),
                                   st2.ctl[instance.panzoom].scale))]

\* getInstance: instances.get(accText)?.panzoom (0 for undefined)
getInstance(st, accText) ==
    IF accText \in DOMAIN st.instances THEN st.instances[accText].panzoom ELSE 0

\* initAllObjects: forEach over the vector shapes in document order; a throw
\* of initializeZoom leaves the loop. ok collects the keys initialised.
RECURSIVE initAllFrom(_, _, _)
initAllFrom(st, n, ok) ==
    IF n > Len(KeyOrder) THEN [st |-> st, threw |-> FALSE, ok |-> ok]
    ELSE IF ~st.dom[KeyOrder[n]].vectorShape THEN initAllFrom(st, n + 1, ok)
    ELSE LET r == initializeZoom(st, KeyOrder[n], NoOptions)
         IN IF r.res = "threw" THEN [st |-> r.st, threw |-> TRUE, ok |-> ok]
            ELSE initAllFrom(r.st, n + 1,
                             IF r.res = "ok" THEN ok \cup {KeyOrder[n]} ELSE ok)

initAllObjects(st) == initAllFrom(st, 1, {})

\* ------------------------------------------------------ gesture listeners
\* touch points (pageX, pageY); their distances are 0, 50, 100 and 150
P0 == <<0, 0>>
P1 == <<60, 80>>
P2 == <<90, 120>>

\* e.touches of the touch events dispatched
TouchLists == { <<P0>>, <<P1>>, <<P0, P1>>, <<P0, P2>>, <<P1, P2>> }

\* the time between a touchend and the event before it: none, a short pause,
\* the whole double-tap window
Elapsed == { 0, ClockStep, TapWindow }

\* e.deltaY of the wheel events dispatched
WheelDeltas == { -100, 100 }

\* Math.hypot on the coordinate differences of the touch points above
Hypot(dx, dy) == CHOOSE r \in 0..(Abs(dx) + Abs(dy)) : r * r = dx * dx + dy * dy

TouchDist(touches) ==
    Hypot(touches[1][1] - touches[2][1], touches[1][2] - touches[2][2])

\* 'wheel' listener
OnWheel(st, i, deltaY) ==
    IF deltaY < 0 THEN PanzoomZoomIn(st, i) ELSE PanzoomZoomOut(st, i)

\* first 'touchstart' listener: record the pinch distance
OnTouchStartPinch(st, i, touches) ==
    IF Len(touches) = 2
    THEN [st EXCEPT !.ctl[i].startDist = TouchDist(touches)]
    ELSE st

\* the pinch listener scaling from the first distance: startDist is not updated
OnTouchMovePinchAbsolute(st, i, touches) ==
    IF Len(touches) = 2
    THEN LET currentDist == TouchDist(touches)
             startDist == st.ctl[i].startDist
         IN IF startDist > 0
            THEN LET scale == PanzoomGetScale(st, i)
                     newScale == RMul(scale, Norm(currentDist, startDist))
                 IN PanzoomZoom(st, i, newScale)
            ELSE st
    ELSE st

\* first 'touchmove' listener: pinch
OnTouchMovePinch(st, i, touches) ==
    IF Len(touches) = 2
    THEN LET currentDist == TouchDist(touches)
             startDist == st.ctl[i].startDist
         IN IF startDist > 0
            THEN LET scale == PanzoomGetScale(st, i)
                     newScale == RMul(scale, Norm(currentDist, startDist))
                 IN [PanzoomZoom(st, i, newScale) EXCEPT !.ctl[i].startDist = currentDist]
            ELSE st
    ELSE st

\* second 'touchstart' listener: start panning
OnTouchStartPan(st, i, touches) ==
    IF Len(touches) = 1
    THEN [st EXCEPT !.ctl[i].isPanning = TRUE,
                    !.ctl[i].lastX = touches[1][1],
                    !.ctl[i].lastY = touches[1][2]]
    ELSE st

\* second 'touchmove' listener: pan
OnTouchMovePan(st, i, touches) ==
    IF st.ctl[i].isPanning /\ Len(touches) = 1
    THEN LET deltaX == touches[1][1] - st.ctl[i].lastX
             deltaY == touches[1][2] - st.ctl[i].lastY
         IN [PanzoomPan(st, i, deltaX, deltaY) EXCEPT
               !.ctl[i].lastX = touches[1][1],
               !.ctl[i].lastY = touches[1][2]]
    ELSE st

\* the touchend listener without startDist = 0
OnTouchEndClearsPanOnly(st, i) ==
    [st EXCEPT !.ctl[i].isPanning = FALSE]

\* first 'touchend' listener
OnTouchEndClear(st, i) ==
    [st EXCEPT !.ctl[i].isPanning = FALSE, !.ctl[i].startDist = 0]

\* the double-tap listener with scale >= 1 for scale > 1
OnTouchEndTapAtLeastOne(st, i, currentTime) ==
    LET tapLength == currentTime - st.ctl[i].lastTap
        st1 == IF tapLength < TapWindow /\ tapLength > 0
               THEN LET scale == PanzoomGetScale(st, i)
                    IN IF ~RLess(scale, RInt(1))
                       THEN PanzoomReset(st, i)
                       ELSE PanzoomZoom(st, i, <<5, 2>>)
               ELSE st
    IN [st1 EXCEPT !.ctl[i].lastTap = currentTime]

\* the double-tap listener forgetting the last tap once the action fired
OnTouchEndTapRearms(st, i, currentTime) ==
    LET tapLength == currentTime - st.ctl[i].lastTap
        fired == tapLength < TapWindow /\ tapLength > 0
        st1 == IF fired
               THEN LET scale == PanzoomGetScale(st, i)
                    IN IF RLess(RInt(1), scale)
                       THEN PanzoomReset(st, i)
                       ELSE PanzoomZoom(st, i, <<5, 2>>)
               ELSE st
    IN [st1 EXCEPT !.ctl[i].lastTap = IF fired THEN 0 ELSE currentTime]

\* second 'touchend' listener: double-tap
OnTouchEndTap(st, i, currentTime) ==
    LET tapLength == currentTime - st.ctl[i].lastTap
        st1 == IF tapLength < TapWindow /\ tapLength > 0
               THEN LET scale == PanzoomGetScale(st, i)
                    IN IF RLess(RInt(1), scale)
                       THEN PanzoomReset(st, i)
                       ELSE PanzoomZoom(st, i, <<5, 2>>)
               ELSE st
    IN [st1 EXCEPT !.ctl[i].lastTap = currentTime]

\* listeners that do nothing once their controller was torn down
RunListenersWhileLive(st, i, ev) ==
    IF st.ctl[i].destroyed THEN st
    ELSE CASE ev.type = "wheel" -> OnWheel(st, i, ev.deltaY)
           [] ev.type = "touchstart" ->
                 OnTouchStartPan(OnTouchStartPinch(st, i, ev.touches), i, ev.touches)
           [] ev.type = "touchmove" ->
                 OnTouchMovePan(OnTouchMovePinch(st, i, ev.touches), i, ev.touches)
           [] ev.type = "touchend" ->
                 OnTouchEndTap(OnTouchEndClear(st, i), i, ev.time)

\* the listeners one initializeZoom registered for an event type, in
\* registration order
RunListeners(st, i, ev) ==
    CASE ev.type = "wheel" -> OnWheel(st, i, ev.deltaY)
      [] ev.type = "touchstart" ->
            OnTouchStartPan(OnTouchStartPinch(st, i, ev.touches), i, ev.touches)
      [] ev.type = "touchmove" ->
            OnTouchMovePan(OnTouchMovePinch(st, i, ev.touches), i, ev.touches)
      [] ev.type = "touchend" ->
            OnTouchEndTap(OnTouchEndClear(st, i), i, ev.time)

\* listeners as if a later initializeZoom of accText removed the earlier ones
ListenersLatestOnly(c, accText) ==
    SelectSeq([i \in 1..Len(c) |-> i],
              LAMBDA i : c[i].key = accText /\ \A j \in (i + 1)..Len(c) : c[j].key # accText)

\* the initializeZoom calls whose listeners are on the maskable of accText:
\* addEventListener is never undone
Listeners(c, accText) ==
    SelectSeq([i \in 1..Len(c) |-> i], LAMBDA i : c[i].key = accText)

\* dispatch of one event to the maskable: every listener, in registration order
RECURSIVE Dispatch(_, _, _)
Dispatch(st, ids, ev) ==
    IF ids = <<>> THEN st
    ELSE Dispatch(RunListeners(st, Head(ids), ev), Tail(ids), ev)

Event(type, deltaY, touches, time) ==
    [type |-> type, deltaY |-> deltaY, touches |-> touches, time |-> time]


\* ----------------------------------------------------------- the loader
\* executeQueue: shift the head, call StorylinePanzoom.init inside try/catch,
\* until the queue is empty. log collects the requests in the order executed.
\* executeQueue taking the requests from the end of the queue (pop for shift)
RECURSIVE executeQueueLIFO(_, _, _, _)
executeQueueLIFO(st, queue, log, ok) ==
    IF Len(queue) = 0 THEN [st |-> st, queue |-> queue, log |-> log, ok |-> ok]
    ELSE LET init == queue[Len(queue)]
             r == initializeZoom(st, init.accText, init.options)
         IN executeQueueLIFO(r.st, SubSeq(queue, 1, Len(queue) - 1), Append(log, init),
                             IF r.res = "ok" THEN ok \cup {init.accText} ELSE ok)

\* executeQueue without the try/catch: a throwing init leaves the loop
RECURSIVE executeQueueNoCatch(_, _, _, _)
executeQueueNoCatch(st, queue, log, ok) ==
    IF Len(queue) = 0 THEN [st |-> st, queue |-> queue, log |-> log, ok |-> ok]
    ELSE LET init == Head(queue)
             r == initializeZoom(st, init.accText, init.options)
         IN IF r.res = "threw"
            THEN [st |-> r.st, queue |-> Tail(queue), log |-> Append(log, init), ok |-> ok]
            ELSE executeQueueNoCatch(r.st, Tail(queue), Append(log, init),
                                     IF r.res = "ok" THEN ok \cup {init.accText} ELSE ok)

RECURSIVE executeQueue(_, _, _, _)
executeQueue(st, queue, log, ok) ==
    IF Len(queue) = 0 THEN [st |-> st, queue |-> queue, log |-> log, ok |-> ok]
    ELSE LET init == Head(queue)
             r == initializeZoom(st, init.accText, init.options)
         IN executeQueue(r.st, Tail(queue), Append(log, init),
                         IF r.res = "ok" THEN ok \cup {init.accText} ELSE ok)

\* typeof StorylinePanzoom !== 'undefined' && typeof Panzoom !== 'undefined'
\* (StorylinePanzoom is the const declared by the same script)
SymbolsExist == panzoomDefined

St == [dom |-> dom, instances |-> instances, ctl |-> ctl, fx |-> <<>>]

Styles(d, accText) ==
    [vector |-> d[accText].vsTransform, maskable |-> d[accText].maskTransform]

\* preInit after initializeZoom succeeded for the keys ok
PreInitAfter(ok) ==
    [k \in Keys |-> IF k \in ok THEN Styles(dom, k) ELSE preInit[k]]

SetSession(st, ok) ==
    /\ dom' = st.dom
    /\ instances' = st.instances
    /\ ctl' = st.ctl
    /\ preInit' = PreInitAfter(ok)

\* the setInterval callback, with its timeout test and whether the give-up
\* branch clears the interval
Poll(timedOut, clears) ==
    /\ polling
    /\ attempts' = attempts + 1
    /\ IF SymbolsExist
       THEN LET r == executeQueue(St, initQueue, initLog, {})
            IN /\ polling' = FALSE
               /\ isReady' = TRUE
               /\ initQueue' = r.queue
               /\ initLog' = r.log
               /\ SetSession(r.st, r.ok)
               /\ last' = Outcome("tick", "", "ready", 0, FALSE, r.st.fx)
               /\ UNCHANGED gaveUp
       ELSE /\ IF timedOut
               THEN polling' = ~clears /\ gaveUp' = TRUE
               ELSE UNCHANGED <<polling, gaveUp>>
            /\ last' = Outcome("tick", "", "wait", 0, FALSE, <<>>)
            /\ UNCHANGED <<isReady, initQueue, initLog, sessionVars>>
    /\ UNCHANGED <<authored, now, budget, panzoomDefined, enqLog>>

\* the callback with attempts > 50 for attempts >= 50
TickOffByOne == Poll(attempts + 1 > MaxAttempts, TRUE)

\* the callback without clearInterval in the timeout branch
TickKeepsPolling == Poll(attempts + 1 >= MaxAttempts, FALSE)

\* the callback emptying initQueue when it gives up
TickForgetsQueue ==
    /\ polling
    /\ attempts' = attempts + 1
    /\ IF SymbolsExist
       THEN LET r == executeQueue(St, initQueue, initLog, {})
            IN /\ polling' = FALSE
               /\ isReady' = TRUE
               /\ initQueue' = r.queue
               /\ initLog' = r.log
               /\ SetSession(r.st, r.ok)
               /\ last' = Outcome("tick", "", "ready", 0, FALSE, r.st.fx)
               /\ UNCHANGED gaveUp
       ELSE /\ IF attempts + 1 >= MaxAttempts
               THEN polling' = FALSE /\ gaveUp' = TRUE /\ initQueue' = <<>>
               ELSE UNCHANGED <<polling, gaveUp, initQueue>>
            /\ last' = Outcome("tick", "", "wait", 0, FALSE, <<>>)
            /\ UNCHANGED <<isReady, initLog, sessionVars>>
    /\ UNCHANGED <<authored, now, budget, panzoomDefined, enqLog>>

\* the setInterval callback: attempts++, then ready() or the 5 seconds timeout
Tick == Poll(attempts + 1 >= MaxAttempts, TRUE)

\* the Panzoom script finishes loading
LoadPanzoom ==
    /\ ~panzoomDefined
    /\ panzoomDefined' = TRUE
    /\ UNCHANGED <<sessionVars, authored, now, budget, isReady, initQueue, attempts, polling,
                   gaveUp, initLog, enqLog, last>>

\* ------------------------------------------------------ the public proxy
\* safeInit without the isReady test
CallInitUngated(accText, options) ==
    /\ LET r == initializeZoom(St, accText, options)
       IN /\ Len(r.st.ctl) <= MaxControllers
          /\ SetSession(r.st, IF r.res = "ok" THEN {accText} ELSE {})
          /\ last' = Outcome("init", accText, r.res, r.ret, r.res = "threw", r.st.fx)
          /\ UNCHANGED <<initQueue, enqLog>>
    /\ UNCHANGED <<authored, now, budget, isReady, attempts, polling, gaveUp, panzoomDefined, initLog>>

\* safeInit pushing { accText } without the options
CallInitDropsOptions(accText, options) ==
    /\ IF isReady
       THEN LET r == initializeZoom(St, accText, options)
            IN /\ Len(r.st.ctl) <= MaxControllers
               /\ SetSession(r.st, IF r.res = "ok" THEN {accText} ELSE {})
               /\ last' = Outcome("init", accText, r.res, r.ret, r.res = "threw", r.st.fx)
               /\ UNCHANGED <<initQueue, enqLog>>
       ELSE /\ Len(initQueue) < MaxQueue
            /\ initQueue' = Append(initQueue, [accText |-> accText, options |-> NoOptions])
            /\ enqLog' = Append(enqLog, [accText |-> accText, options |-> options])
            /\ last' = Outcome("init", accText, "gated", 0, FALSE, <<>>)
            /\ UNCHANGED sessionVars
    /\ UNCHANGED <<authored, now, budget, isReady, attempts, polling, gaveUp, panzoomDefined, initLog>>

\* window.StorylinePanzoom.init = StorylinePanzoomLoader.init = safeInit
CallInit(accText, options) ==
    /\ IF isReady
       THEN LET r == initializeZoom(St, accText, options)
            IN /\ Len(r.st.ctl) <= MaxControllers
               /\ SetSession(r.st, IF r.res = "ok" THEN {accText} ELSE {})
               /\ last' = Outcome("init", accText, r.res, r.ret, r.res = "threw", r.st.fx)
               /\ UNCHANGED <<initQueue, enqLog>>
       ELSE /\ Len(initQueue) < MaxQueue
            /\ initQueue' = Append(initQueue, [accText |-> accText, options |-> options])
            /\ enqLog' = Append(enqLog, [accText |-> accText, options |-> options])
            /\ last' = Outcome("init", accText, "gated", 0, FALSE, <<>>)
            /\ UNCHANGED sessionVars
    /\ UNCHANGED <<authored, now, budget, isReady, attempts, polling, gaveUp, panzoomDefined, initLog>>

\* the wrapper the proxy returns for every other property: call through when
\* ready, else warn and return null
CallReset(accText) ==
    /\ IF isReady
       THEN LET st == reset(St, accText)
            IN /\ SetSession(st, {})
               /\ last' = Outcome("reset", accText, "through", 0, FALSE, st.fx)
       ELSE /\ last' = Outcome("reset", accText, "gated", 0, FALSE, <<>>)
            /\ UNCHANGED sessionVars
    /\ UNCHANGED <<authored, now, budget, loaderVars>>

CallDestroy(accText) ==
    /\ IF isReady
       THEN LET st == destroy(St, accText)
            IN /\ SetSession(st, {})
               /\ last' = Outcome("destroy", accText, "through", 0, FALSE, st.fx)
       ELSE /\ last' = Outcome("destroy", accText, "gated", 0, FALSE, <<>>)
            /\ UNCHANGED sessionVars
    /\ UNCHANGED <<authored, now, budget, loaderVars>>

CallInitAll ==
    /\ IF isReady
       THEN LET r == initAllObjects(St)
            IN /\ Len(r.st.ctl) <= MaxControllers
               /\ SetSession(r.st, r.ok)
               /\ last' = Outcome("initAll", "", "through", 0, r.threw, r.st.fx)
       ELSE /\ last' = Outcome("initAll", "", "gated", 0, FALSE, <<>>)
            /\ UNCHANGED sessionVars
    /\ UNCHANGED <<authored, now, budget, loaderVars>>

CallGetInstance(accText) ==
    /\ last' = Outcome("getInstance", accText, IF isReady THEN "through" ELSE "gated",
                       IF isReady THEN getInstance(St, accText) ELSE 0,
                       FALSE, <<>>)
    /\ UNCHANGED <<sessionVars, authored, now, budget, loaderVars>>

\* ------------------------------------------------------------ the browser
\* an event on the maskable of accText reaches the listeners attached to it
DispatchEvent(accText, ev) ==
    /\ budget > 0
    /\ Listeners(ctl, accText) # <<>>
    /\ budget' = budget - 1
    /\ now' = ev.time
    /\ LET st == Dispatch(St, Listeners(ctl, accText), ev)
       IN /\ SetSession(st, {})
          /\ last' = EventOutcome(ev, accText, st.fx)
    /\ UNCHANGED <<authored, loaderVars>>

Wheel(accText, deltaY) == DispatchEvent(accText, Event("wheel", deltaY, <<>>, now))

TouchStart(accText, touches) == DispatchEvent(accText, Event("touchstart", 0, touches, now))

TouchMove(accText, touches) == DispatchEvent(accText, Event("touchmove", 0, touches, now))

\* the touchend comes elapsed milliseconds after the previous event
TouchEnd(accText, elapsed) ==
    DispatchEvent(accText, Event("touchend", 0, <<>>, now + elapsed))

\* ------------------------------------------------------- specifications
NoOutcome == Outcome("", "", "", 0, FALSE, <<>>)

NoSessions ==
    /\ authored = dom
    /\ instances = << >>
    /\ ctl = <<>>
    /\ now = T0
    /\ preInit = [k \in Keys |-> [vector |-> EmptyStr, maskable |-> EmptyStr]]
    /\ last = NoOutcome

\* the page as the script finds it
Documents == [Keys -> ElementKinds]

LoaderReady ==
    /\ isReady = TRUE
    /\ initQueue = <<>>
    /\ attempts = 1
    /\ polling = FALSE
    /\ gaveUp = FALSE
    /\ panzoomDefined = TRUE
    /\ initLog = <<>>
    /\ enqLog = <<>>

\* the session module once the loader has declared readiness on its first tick
SessionInit ==
    /\ dom \in Documents
    /\ NoSessions
    /\ budget = MaxEvents
    /\ LoaderReady

SessionNext ==
    \/ \E k \in Keys : CallInit(k, NoOptions)
    \/ \E k \in Keys : CallReset(k)
    \/ \E k \in Keys : CallDestroy(k)
    \/ CallInitAll
    \/ \E k \in Keys : CallGetInstance(k)
    \/ \E k \in Keys, d \in WheelDeltas : Wheel(k, d)
    \/ \E k \in Keys, t \in {<<P0>>, <<P0, P1>>} : TouchStart(k, t)
    \/ \E k \in Keys, t \in {<<P1>>, <<P0, P2>>} : TouchMove(k, t)
    \/ \E k \in Keys, e \in {ClockStep, TapWindow} : TouchEnd(k, e)

Spec == SessionInit /\ [][SessionNext]_vars

\* a complete element set that the authoring tool rotated and scaled:
\* 'translate(10px, -5px) rotate(90deg) scale(2, 0.5)'
ScaledElement ==
    Element(TRUE, TRUE, TRUE, TranslateRotateScale(10, -5, 90, RInt(2), <<1, 2>>, " "))

\* pages with no vector shape but Lion's
GestureDocuments ==
    { d \in [Keys -> ElementKinds \cup {ScaledElement}] : ~d["Tiger"].vectorShape }

\* one session, just created by init("Lion", options) on a complete element set
GestureInit ==
    /\ \E d \in GestureDocuments, o \in CustomOptions :
          LET r == initializeZoom([dom |-> d, instances |-> << >>, ctl |-> <<>>, fx |-> <<>>],
                                  "Lion", o)
          IN /\ r.res = "ok"
             /\ authored = d
             /\ dom = r.st.dom
             /\ instances = r.st.instances
             /\ ctl = r.st.ctl
             /\ preInit = [k \in Keys |-> IF k = "Lion" THEN Styles(d, k)
                                          ELSE [vector |-> EmptyStr, maskable |-> EmptyStr]]
             /\ last = Outcome("init", "Lion", r.res, r.ret, FALSE, r.st.fx)
    /\ now = T0
    /\ budget = MaxGestures
    /\ LoaderReady

\* the gestures on that session's maskable, and reset
GestureNext ==
    \/ CallReset("Lion")
    \/ \E d \in WheelDeltas : Wheel("Lion", d)
    \/ \E t \in TouchLists : TouchStart("Lion", t)
    \/ \E t \in TouchLists : TouchMove("Lion", t)
    \/ \E e \in Elapsed : TouchEnd("Lion", e)

GestureSpec == GestureInit /\ [][GestureNext]_vars

\* pages for the loader: one complete element set, the other complete or
\* without its maskable
LoaderDocuments ==
    { d \in Documents : /\ findStorylineObject(d, "Lion") /\ d["Lion"].maskable
                        /\ getTransformValues(d["Lion"].vsTransform).found
                        /\ findStorylineObject(d, "Tiger")
                        /\ getTransformValues(d["Tiger"].vsTransform).found }

\* the script as loaded: not ready, nothing queued, the poll running
LoaderInit ==
    /\ dom \in LoaderDocuments
    /\ NoSessions
    /\ budget = 0
    /\ isReady = FALSE
    /\ initQueue = <<>>
    /\ attempts = 0
    /\ polling = TRUE
    /\ gaveUp = FALSE
    /\ panzoomDefined \in BOOLEAN
    /\ initLog = <<>>
    /\ enqLog = <<>>

LoaderNext ==
    \/ Tick
    \/ LoadPanzoom
    \/ \E k \in Keys : CallInit(k, NoOptions)
    \/ \E k \in Keys : CallReset(k)
    \/ \E k \in Keys : CallDestroy(k)
    \/ CallInitAll
    \/ \E k \in Keys : CallGetInstance(k)

LoaderSpec == LoaderInit /\ [][LoaderNext]_vars

\* the poll alone
PollNext ==
    \/ Tick
    \/ LoadPanzoom

\* setInterval keeps firing the callback until clearInterval
PollSpec == LoaderInit /\ [][PollNext]_vars /\ WF_vars(Tick)

\* one session, its gestures and its destroy
TeardownNext ==
    \/ CallDestroy("Lion")
    \/ \E d \in WheelDeltas : Wheel("Lion", d)
    \/ \E t \in {<<P0>>, <<P0, P1>>} : TouchStart("Lion", t)
    \/ \E t \in {<<P1>>, <<P0, P2>>} : TouchMove("Lion", t)
    \/ \E e \in {ClockStep, TapWindow} : TouchEnd("Lion", e)

TeardownSpec == GestureInit /\ [][TeardownNext]_vars

\* the loader and the public init alone, with either options object
QueueNext ==
    \/ Tick
    \/ LoadPanzoom
    \/ \E k \in Keys, o \in CustomOptions : CallInit(k, o)

QueueSpec == LoaderInit /\ [][QueueNext]_vars


\* ------------------------------------------------------------- properties
PublicOps == {"init", "reset", "destroy", "initAll", "getInstance"}

\* the element pair init looks up
PairPresent(accText) == dom[accText].vectorShape /\ dom[accText].accImage

\* the vector shape's transform has the translate/rotate/scale shape
WellFormed(accText) == dom[accText].vsTransform.shape = "translate-rotate-scale"

\* the latest operation was init(key), and it reached initializeZoom
InitRan == last.op = "init" /\ last.via # "gated"

\* C1: init on a key whose container and image exist and whose transform is
\* well formed returns a controller, and the registry holds that controller
\* under the key. (init leaves the document as it is, so the precondition is
\* read in the state after the call.)
C1_InitReturnsController ==
    (InitRan /\ PairPresent(last.key) /\ WellFormed(last.key))
        => /\ last.ret # 0
           /\ last.key \in DOMAIN instances
           /\ instances[last.key].panzoom = last.ret

\* C2: an init that fails because the container or the image is missing, or
\* because the transform of the container does not match, returns null, does
\* not throw, and leaves the registry as it was.
C2_FailedInitLeavesRegistry ==
    [][ LET k == last'.key
        IN (/\ last'.op = "init" /\ last'.via # "gated"
            /\ \/ ~dom[k].vectorShape
               \/ ~dom[k].accImage
               \/ (dom[k].maskable /\ ~getTransformValues(dom[k].vsTransform).found))
           => /\ last'.via \in {"notfound", "nomatch"}
              /\ last'.ret = 0
              /\ ~last'.threw
              /\ instances' = instances ]_vars

\* a transform mismatch was reported while another key had a session
C2_Witness ==
    /\ InitRan /\ last.via = "nomatch"
    /\ DOMAIN instances # {}

\* C3: after reset(key) on a registered key, whatever gestures came before,
\* the container's and the maskable's transform are the strings read just
\* before the init that created the session, and the image's transform is ''.
C3_ResetRestoresStyles ==
    (last.op = "reset" /\ last.via = "through" /\ last.key \in DOMAIN instances)
        => /\ dom[last.key].vsTransform = preInit[last.key].vector
           /\ dom[last.key].maskTransform = preInit[last.key].maskable
           /\ dom[last.key].imgTransform = EmptyStr

\* reset was called on a session whose controller was zoomed in
C3_Witness ==
    /\ last.op = "reset" /\ last.key \in DOMAIN instances
    /\ last.fx # <<>>
    /\ last.fx[1].method = "reset"
    /\ RLess(RInt(1), last.fx[1].scale)

Methods(fx) == [n \in 1..Len(fx) |-> fx[n].method]

\* C4: destroy(key) on a registered key resets the session, then tears the
\* controller down once, then removes the entry; afterwards getInstance(key)
\* is undefined, and an entry for a key appears only by a successful init of
\* that key.
C4_DestroyThenNoInstance ==
    /\ [](last.op = "destroy" /\ last.via = "through"
            => /\ getInstance(St, last.key) = 0
               /\ last.fx # <<>> =>
                    /\ Methods(last.fx) = <<"reset", "restore", "destroy", "instances.delete">>
                    /\ \A n \in 1..Len(last.fx) : last.fx[n].id = last.fx[1].id
                    /\ ctl[last.fx[1].id].destroyed)
    /\ [](last.op = "getInstance" /\ last.key \notin DOMAIN instances => last.ret = 0)
    /\ [][\A k \in Keys :
            (k \notin DOMAIN instances /\ k \in DOMAIN instances')
               => /\ last'.op \in {"init", "initAll", "tick"}
                  /\ \E n \in 1..Len(last'.fx) :
                        /\ last'.fx[n].method = "instances.set"
                        /\ ctl'[last'.fx[n].id].key = k
                        /\ instances'[k].panzoom = last'.fx[n].id]_vars

\* getInstance returned undefined for a key whose session was destroyed
C4_Witness ==
    /\ last.op = "getInstance" /\ last.ret = 0
    /\ \E i \in 1..Len(ctl) : ctl[i].key = last.key /\ ctl[i].destroyed


\* C5: while isReady is false, a call through the public proxy returns null,
\* does not throw, and leaves the registry, the controllers and the document
\* as they were.
C5_NotReadyCallsAreInert ==
    [][ (~isReady /\ last'.op \in PublicOps)
          => /\ last'.ret = 0
             /\ ~last'.threw
             /\ last'.via = "gated"
             /\ instances' = instances
             /\ ctl' = ctl
             /\ dom' = dom ]_vars

\* a public call was made after the loader had given up
C5_Witness ==
    /\ gaveUp
    /\ last.op \in PublicOps
    /\ last.via = "gated"

\* C6: the queued requests are executed in the order they were enqueued, none
\* before isReady is set, and all of them before an init issued after
\* readiness reaches initializeZoom.
C6_QueueDrainsInOrder ==
    /\ ~isReady => (initLog = <<>> /\ initQueue = enqLog)
    /\ isReady => (initQueue = <<>> /\ initLog = enqLog)
    /\ InitRan => isReady

\* two requests for different keys were queued and executed
C6_Witness ==
    /\ isReady
    /\ Len(initLog) = 2
    /\ initLog[1].accText # initLog[2].accText

\* C7: the poll ends within 50 ticks: the interval is cleared by the first tick
\* that finds the symbols (the 50th included) or by the 50th tick, and no
\* tick runs afterwards.
C7_PollTerminates ==
    /\ [](attempts <= MaxAttempts)
    /\ [](polling => (attempts < MaxAttempts /\ ~isReady /\ ~gaveUp))
    /\ [](~polling => (isReady \/ gaveUp))
    /\ [](gaveUp => attempts = MaxAttempts)
    /\ [][~polling => (attempts' = attempts /\ ~polling')]_vars
    /\ [][(attempts' # attempts /\ SymbolsExist) => (isReady' /\ ~polling')]_vars
    /\ <>(~polling)

\* readiness was declared by the 50th tick
C7_Witness ==
    /\ isReady
    /\ attempts = MaxAttempts

\* C8: ready and given up exclude each other and neither is ever left.
C8_OutcomesAreTerminal ==
    /\ [](~(isReady /\ gaveUp))
    /\ [][isReady => (isReady' /\ ~gaveUp')]_vars
    /\ [][gaveUp => (gaveUp' /\ ~isReady')]_vars

\* the loader has given up and Panzoom was defined afterwards
C8_Witness ==
    /\ gaveUp
    /\ ~isReady
    /\ panzoomDefined

\* the calls an operation made on controller i, in order
CallsOn(fx, i) ==
    SelectSeq(fx, LAMBDA e : e.id = i /\ e.method \in {"zoom", "zoomIn", "zoomOut", "pan",
                                                        "reset", "destroy"})

Call(e) == <<e.method, e.arg>>

\* C9: a touchend that comes more than 0 and less than 300 ms after the
\* listener's previous touchend calls reset() when the controller's scale is
\* above 1 and zoom(2.5) otherwise, and nothing else.
C9_DoubleTapTogglesZoom ==
    [][ \A i \in 1..Len(ctl) :
          (/\ last'.op = "touchend" /\ budget' # budget
           /\ ctl[i].key = last'.key
           /\ now' - ctl[i].lastTap > 0
           /\ now' - ctl[i].lastTap < TapWindow)
          => LET calls == CallsOn(last'.fx, i)
             IN /\ Len(calls) = 1
                /\ IF RLess(RInt(1), ctl[i].scale)
                   THEN calls[1].method = "reset"
                   ELSE Call(calls[1]) = <<"zoom", <<5, 2>>>> ]_vars

\* a double-tap at scale 3 reset the controller
C9_Witness ==
    /\ last.op = "touchend"
    /\ last.fx # <<>>
    /\ last.fx[1].method = "reset"
    /\ last.fx[1].scale = RInt(3)

\* C10: a two-finger touchmove with recorded distance d > 0 calls
\* zoom(scale * currentDist / d) and records currentDist; with d = 0 it calls
\* nothing and the recorded distance stays 0.
C10_PinchIsIncremental ==
    [][ \A i \in 1..Len(ctl) :
          (/\ last'.op = "touchmove" /\ budget' # budget
           /\ ctl[i].key = last'.key
           /\ Len(last'.touches) = 2)
          => LET d == ctl[i].startDist
                 currentDist == TouchDist(last'.touches)
                 calls == CallsOn(last'.fx, i)
             IN IF d > 0
                THEN /\ Len(calls) = 1
                     /\ Call(calls[1]) = <<"zoom", Norm(ctl[i].scale[1] * currentDist,
                                                        ctl[i].scale[2] * d)>>
                     /\ ctl'[i].startDist = currentDist
                ELSE /\ calls = <<>>
                     /\ ctl'[i].startDist = 0
                     /\ ctl'[i].scale = ctl[i].scale ]_vars

\* fingers 100 apart, then 150 apart, at scale 1: zoom(1.5) was called
C10_Witness ==
    /\ last.op = "touchmove"
    /\ last.fx # <<>>
    /\ Call(last.fx[1]) = <<"zoom", <<3, 2>>>>
    /\ last.fx[1].scale = RInt(1)
    /\ TouchDist(last.touches) = 150
    /\ ctl[last.fx[1].id].startDist = 150

\* a step of the public init (LoadPanzoom leaves last as it is)
InitStep == last'.op = "init" /\ panzoomDefined' = panzoomDefined

\* C11: the public init is safeInit: with isReady set it has the effect and
\* the result of initializeZoom on the arguments given and leaves the queue
\* alone; with isReady not set it appends the one entry {accText, options}
\* given to the queue, runs no initializeZoom and returns null.
C11_InitIsGated ==
    [][ InitStep =>
          IF isReady
          THEN \E o \in CustomOptions :
                  LET r == initializeZoom(St, last'.key, o)
                  IN /\ dom' = r.st.dom
                     /\ instances' = r.st.instances
                     /\ ctl' = r.st.ctl
                     /\ last'.ret = r.ret
                     /\ last'.threw = (r.res = "threw")
                     /\ initQueue' = initQueue
                     /\ initLog' = initLog
          ELSE /\ Len(enqLog') = Len(enqLog) + 1
               /\ enqLog'[Len(enqLog')].accText = last'.key
               /\ initQueue' = Append(initQueue, enqLog'[Len(enqLog')])
               /\ last'.ret = 0
               /\ ~last'.threw
               /\ initLog' = initLog
               /\ UNCHANGED sessionVars ]_vars

\* an init with {maxScale: 2} was queued and, after readiness, another init
\* returned a controller at once
C11_Witness ==
    /\ isReady
    /\ InitRan /\ last.ret # 0
    /\ enqLog # <<>>
    /\ enqLog[1].options # NoOptions

\* C12: init never throws: whichever elements are missing, an init that
\* registers no session returns null.
C12_InitNeverThrows ==
    InitRan => /\ ~last.threw
               /\ last.via \in {"notfound", "nomatch", "ok"}
               /\ last.via # "ok" => last.ret = 0

\* the latest operation was an event whose listeners called a controller
EventCalled == last.via = "event" /\ last.fx # <<>>

\* C13: after an event whose listeners called a controller, the container's
\* transform is translate and rotate as parsed at init with scale (scaleX *
\* scale, scaleY * scale) for the scale of the controller called last, the
\* image's transform is scale(scale) with origin '0 0', and the controller's
\* x and y appear nowhere; at every moment the container's transform parses
\* to the translate and rotate parsed at init.
C13_TransformKeepsPlacement ==
    /\ EventCalled =>
          LET c == ctl[last.fx[Len(last.fx)].id]
          IN /\ dom[c.key].vsTransform =
                   TranslateRotateScale(c.tv.translateX, c.tv.translateY, c.tv.rotate,
                                        RMul(c.tv.scaleX, c.scale),
                                        RMul(c.tv.scaleY, c.scale), " ")
             /\ dom[c.key].imgTransform = ScaleOnly(c.scale)
             /\ dom[c.key].imgOrigin = "0 0"
    /\ \A i \in 1..Len(ctl) :
          LET t == getTransformValues(dom[ctl[i].key].vsTransform)
          IN /\ t.found
             /\ t.translateX = ctl[i].tv.translateX
             /\ t.translateY = ctl[i].tv.translateY
             /\ t.rotate = ctl[i].tv.rotate

\* a pan by (60, 80) at scale 1.3 on the container authored with
\* rotate(90deg) scale(2, 0.5)
C13_Witness ==
    /\ EventCalled
    /\ last.fx[Len(last.fx)].method = "pan"
    /\ LET c == ctl[last.fx[Len(last.fx)].id]
       IN /\ c.x = 60 /\ c.y = 80
          /\ c.scale = <<13, 10>>
          /\ c.tv.scaleX = RInt(2)
          /\ dom[c.key].vsTransform.sx = <<13, 5>>

\* C14: the originalState and the transformValues of every registered session
\* are the container's transform as authored.
C14_SessionsKeepBaseline ==
    \A k \in DOMAIN instances :
        /\ instances[k].originalState.vectorTransform = authored[k].vsTransform
        /\ ctl[instances[k].panzoom].tv = getTransformValues(authored[k].vsTransform)

\* C15: a registered key maps to the controller created last for it; an init
\* that succeeds on a registered key puts the new controller in the entry,
\* calls nothing on the previous controller and leaves it as it was; and a
\* wheel event on a maskable calls one zoom step on every controller created
\* for its key, replaced ones included.
C15_ReinitLeavesOldController ==
    /\ [](\A k \in DOMAIN instances :
            LET ids == Listeners(ctl, k)
            IN ids # <<>> /\ instances[k].panzoom = ids[Len(ids)])
    /\ [][ (InitStep /\ last'.ret # 0 /\ last'.key \in DOMAIN instances)
            => LET old == instances[last'.key].panzoom
               IN /\ instances'[last'.key].panzoom = last'.ret
                  /\ last'.ret # old
                  /\ CallsOn(last'.fx, old) = <<>>
                  /\ ctl'[old] = ctl[old]
                  /\ ~ctl'[old].destroyed
                  /\ DOMAIN instances' = DOMAIN instances ]_vars
    /\ [](last.op = "wheel" =>
            \A i \in 1..Len(ctl) :
                ctl[i].key = last.key =>
                    /\ Len(CallsOn(last.fx, i)) = 1
                    /\ CallsOn(last.fx, i)[1].method \in {"zoomIn", "zoomOut"})

\* after two inits of one key, a wheel event zoomed the replaced controller
\* and the registered one
C15_Witness ==
    /\ last.op = "wheel"
    /\ Len(ctl) = 2
    /\ ctl[1].key = last.key /\ ctl[2].key = last.key
    /\ last.key \in DOMAIN instances
    /\ instances[last.key].panzoom = 2
    /\ Methods(last.fx) = <<"zoomIn", "zoomIn">>
    /\ last.fx[1].id = 1 /\ last.fx[2].id = 2

\* a step that dispatches an event
EventStep == budget' # budget

\* C16: a controller torn down by destroy is not the registry's entry for its
\* key, and its listeners still act: a wheel event calls zoomIn or zoomOut on
\* it, a two-finger touchmove with a recorded distance calls zoom, a
\* one-finger touchmove while panning calls pan, and a touchend inside the
\* double-tap window calls reset or zoom.
C16_DestroyLeavesListeners ==
    /\ [](\A i \in 1..Len(ctl) : ctl[i].destroyed => getInstance(St, ctl[i].key) # i)
    /\ [][ \A i \in 1..Len(ctl) :
            (EventStep /\ ctl[i].key = last'.key /\ ctl[i].destroyed)
            => LET calls == CallsOn(last'.fx, i)
                   op == last'.op
                   n == Len(last'.touches)
               IN /\ op = "wheel"
                        => Len(calls) = 1 /\ calls[1].method \in {"zoomIn", "zoomOut"}
                  /\ (op = "touchmove" /\ n = 2 /\ ctl[i].startDist > 0)
                        => Len(calls) = 1 /\ calls[1].method = "zoom"
                  /\ (op = "touchmove" /\ n = 1 /\ ctl[i].isPanning)
                        => Len(calls) = 1 /\ calls[1].method = "pan"
                  /\ (op = "touchend" /\ now' - ctl[i].lastTap > 0
                                      /\ now' - ctl[i].lastTap < TapWindow)
                        => Len(calls) = 1 /\ calls[1].method \in {"reset", "zoom"} ]_vars

\* a pinch zoomed the controller of a destroyed session
C16_Witness ==
    /\ last.op = "touchmove"
    /\ last.fx # <<>>
    /\ last.fx[1].method = "zoom"
    /\ ctl[last.fx[1].id].destroyed
    /\ last.key \notin DOMAIN instances

\* a step that is a call of one of the public functions ops
CallStep(ops) ==
    /\ last'.op \in ops
    /\ budget' = budget
    /\ attempts' = attempts
    /\ panzoomDefined' = panzoomDefined

\* C17: reset(key) and destroy(key) on a key without a registered session
\* call no controller, write no style and leave the registry, the other
\* keys' sessions included, as it was.
C17_UnregisteredIsNoOp ==
    [][ (/\ CallStep({"reset", "destroy"})
         /\ last'.via = "through"
         /\ last'.key \notin DOMAIN instances)
        => /\ last'.fx = <<>>
           /\ ~last'.threw
           /\ dom' = dom
           /\ instances' = instances
           /\ ctl' = ctl ]_vars

\* a second destroy of a key did nothing while the other key had a session
C17_Witness ==
    /\ last.op = "destroy" /\ last.via = "through"
    /\ last.fx = <<>>
    /\ \E i \in 1..Len(ctl) : ctl[i].key = last.key /\ ctl[i].destroyed
    /\ DOMAIN instances = Keys \ {last.key}

\* a step that dispatches a touchstart with n fingers
TouchStartStep(n) == EventStep /\ last'.op = "touchstart" /\ Len(last'.touches) = n

\* C18: after a touchend the panning flag is off and the recorded distance is
\* 0 in every listener closure of the maskable; the flag stays off until a
\* touchstart with one finger and the distance stays 0 until a touchstart
\* with two fingers; and a touchmove calls pan only with the flag on and zoom
\* only with a recorded distance above 0.
C18_TouchEndClearsGesture ==
    /\ [](last.op = "touchend" =>
            \A i \in 1..Len(ctl) :
                ctl[i].key = last.key => ~ctl[i].isPanning /\ ctl[i].startDist = 0)
    /\ [][ \A i \in 1..Len(ctl) :
            /\ (~ctl[i].isPanning /\ ~TouchStartStep(1)) => ~ctl'[i].isPanning
            /\ (ctl[i].startDist = 0 /\ ~TouchStartStep(2)) => ctl'[i].startDist = 0
            /\ (EventStep /\ last'.op = "touchmove")
                  => LET calls == Methods(CallsOn(last'.fx, i))
                     IN /\ ~ctl[i].isPanning => calls \in {<<>>, <<"zoom">>}
                        /\ ctl[i].startDist = 0 => calls \in {<<>>, <<"pan">>} ]_vars

\* a pinch zoomed to 1.5, a finger was lifted, and the next two-finger
\* touchmove called nothing
C18_Witness ==
    /\ last.op = "touchmove"
    /\ Len(last.touches) = 2
    /\ last.fx = <<>>
    /\ \E i \in 1..Len(ctl) :
          /\ ctl[i].key = last.key
          /\ ctl[i].lastTap > 0
          /\ ctl[i].scale = <<3, 2>>
          /\ ctl[i].startDist = 0

\* init on the element set of accText gets as far as instances.set
Initialisable(accText) ==
    /\ findStorylineObject(dom, accText)
    /\ dom[accText].maskable
    /\ getTransformValues(dom[accText].vsTransform).found

\* init on the element set of accText throws
Throwing(accText) == findStorylineObject(dom, accText) /\ ~dom[accText].maskable

\* C19: the tick that declares readiness returns normally, leaves the queue
\* empty, has passed every queued request to init once, in order, and has
\* registered a session for every queued key with a complete element set,
\* those queued behind a request whose init throws included.
C19_DrainSurvivesThrow ==
    [][ (~isReady /\ isReady')
        => /\ initQueue' = <<>>
           /\ initLog' = initLog \o initQueue
           /\ ~last'.threw
           /\ \A n \in 1..Len(initQueue) :
                 Initialisable(initQueue[n].accText)
                    => /\ initQueue[n].accText \in DOMAIN instances'
                       /\ \E i \in 1..Len(ctl') :
                             /\ ctl'[i].key = initQueue[n].accText
                             /\ ctl'[i].maxScale = MergeOptions(initQueue[n].options).maxScale
           /\ Len(ctl') = Cardinality({n \in 1..Len(initQueue) :
                                          Initialisable(initQueue[n].accText)}) ]_vars

\* the drain ran a request whose init throws and then one that registered
C19_Witness ==
    /\ isReady
    /\ last.op = "tick"
    /\ Len(initLog) = 2
    /\ Throwing(initLog[1].accText)
    /\ initLog[2].accText \in DOMAIN instances
    /\ initQueue = <<>>

\* C20: once isReady is set the queue is empty and every request ever
\* enqueued has been passed to init exactly once, in order, and none is
\* passed again; once the loader has given up none has been passed to init,
\* none ever is, and an init call only appends its request to the queue, which
\* never loses an entry.
C20_QueuedInitsRunOnce ==
    /\ [](isReady => (initQueue = <<>> /\ initLog = enqLog))
    /\ [][isReady => (initLog' = initLog /\ enqLog' = enqLog)]_vars
    /\ [](gaveUp => (initLog = <<>> /\ initQueue = enqLog /\ ctl = <<>>))
    /\ [][ gaveUp =>
            /\ Len(initQueue') >= Len(initQueue)
            /\ SubSeq(initQueue', 1, Len(initQueue)) = initQueue
            /\ InitStep => (/\ Len(initQueue') = Len(initQueue) + 1
                            /\ initQueue'[Len(initQueue')].accText = last'.key) ]_vars

\* two requests are pending, the later one queued after the loader gave up
C20_Witness ==
    /\ gaveUp
    /\ last.op = "init" /\ last.via = "gated"
    /\ Len(initQueue) = 2
    /\ initLog = <<>>

\* C21: lastTap of a listener closure is the time of the latest touchend on
\* its maskable (0 before the first) and changes on nothing else; a touchend
\* calls reset or zoom on the controller exactly when the time since lastTap
\* is above 0 and below 300 ms, calls nothing otherwise, and sets lastTap to
\* its own time whether or not it called.
C21_DoubleTapWindow ==
    [][ \A i \in 1..Len(ctl) :
          IF EventStep /\ last'.op = "touchend" /\ ctl[i].key = last'.key
          THEN LET tapLength == now' - ctl[i].lastTap
                   calls == CallsOn(last'.fx, i)
                   fired == Len(calls) = 1 /\ calls[1].method \in {"reset", "zoom"}
               IN /\ fired <=> (tapLength > 0 /\ tapLength < TapWindow)
                  /\ fired \/ calls = <<>>
                  /\ ctl'[i].lastTap = now'
          ELSE ctl'[i].lastTap = ctl[i].lastTap ]_vars

\* three touchends in a row, each a short pause after the one before: the
\* second zoomed to 2.5 and the third reset
C21_Witness ==
    /\ last.op = "touchend"
    /\ budget = MaxGestures - 3
    /\ now - T0 \in {2 * ClockStep, 3 * ClockStep}
    /\ last.fx # <<>>
    /\ last.fx[1].method = "reset"
    /\ last.fx[1].scale = <<5, 2>>

====
